---- MODULE Spec2Model ----
(***************************************************************************)
(* Model of the tap counter / stopwatch / rest timer of src/App.tsx.       *)
(*                                                                         *)
(* The React state (phase, count, elapsedMs, restMs, round, roundTimes)    *)
(* and the refs (startTimeRef, restEndRef, tickerRef) are the variables.   *)
(* The handlers are closures created by a render: the `phase` and `round`  *)
(* they test are the values of the render that created them (rPhase,       *)
(* rRound), while functional updaters (setCount(c => ..)) and refs see the *)
(* current values.  A state update is applied in the order it is queued,   *)
(* so the state variables hold the result of the updates queued so far.    *)
(*                                                                         *)
(* Spec       every press handler that updates state is followed by the    *)
(*            re-render before the next event is delivered; updates made   *)
(*            by an interval callback are rendered by a later Render step. *)
(* SpecStale  the re-render is a step of its own, so that several press    *)
(*            handlers may run against the same rendered snapshot.         *)
(***************************************************************************)
EXTENDS Integers, Sequences, FiniteSets

VARIABLES
    phase,          \* useState<Phase>
    count,          \* useState(0)
    elapsedMs,      \* useState(0)
    restMs,         \* useState(REST_MS)
    round,          \* useState(1)
    roundTimes,     \* useState<number[]>([])
    startTimeRef,   \* useRef<number | null>
    restEndRef,     \* useRef<number | null>
    tickerRef,      \* useRef<interval id | null>
    timers,         \* the intervals installed by setInterval and not yet cleared
    now,            \* Date.now()
    rPhase,         \* phase as captured by the handlers of the last render
    rRound,         \* round as captured by the handlers of the last render
    op,             \* the operation that made the last step
    beeps,          \* calls of beepAndVibrate made by the last step
    soundRef,       \* useRef<Audio.Sound | null>
    alert           \* what the beepAndVibrate call of the last step did

session == <<phase, count, elapsedMs, restMs, round, roundTimes>>
refs == <<startTimeRef, restEndRef, tickerRef>>
snapshot == <<rPhase, rRound>>
vars == <<phase, count, elapsedMs, restMs, round, roundTimes, startTimeRef,
          restEndRef, tickerRef, timers, now, rPhase, rRound, op, beeps,
          soundRef, alert>>

----------------------------------------------------------------------------
\* Program constants.
GOAL == 40
REST_MS == 15000
TOTAL_ROUNDS == 4
MAIN_TICK_MS == 50
REST_TICK_MS == 100

\* Bounds of the model.
Quantum == 7500       \* the clock is read in multiples of Quantum ms
MaxQuanta == 9        \* the clock stops advancing at MaxQuanta * Quantum
MaxTimers == 3        \* interval ids that can be live at once

Phases == {"count", "ready", "timing", "rest", "done", "summary"}

\* null of a ref, undefined of an array hole.
Null == -1
Undefined == -2

Min(a, b) == IF a <= b THEN a ELSE b
Max(a, b) == IF a >= b THEN a ELSE b

\* x ?? d
OrElse(x, d) == IF x = Null THEN d ELSE x

\* newArr = [...prev]; newArr[i - 1] = v   (i is 1-based here)
SetAt(arr, i, v) ==
    [k \in 1..Max(Len(arr), i) |->
        IF k = i THEN v ELSE IF k <= Len(arr) THEN arr[k] ELSE Undefined]

\* clearInterval(id)
ClearInterval(ts, id) == {t \in ts : t.id # id}

\* if (tickerRef.current) clearInterval(tickerRef.current)
ClearTicker_Forgotten(ts) == ts
ClearTicker(ts) == IF tickerRef # Null THEN ClearInterval(ts, tickerRef) ELSE ts

\* the id setInterval returns: one no live interval has
FreeIds(ts) == {i \in 1..MaxTimers : \A t \in ts : t.id # i}
NewId(ts) == CHOOSE i \in FreeIds(ts) : \A j \in FreeIds(ts) : i <= j

\* the clock values a later Date.now() of the same handler can return
Later(t) == {u \in {t, t + Quantum} : u <= MaxQuanta * Quantum}

\* The re-render that follows a handler's state updates.
Rerender(flush) ==
    IF flush THEN rPhase' = phase' /\ rRound' = round'
             ELSE UNCHANGED snapshot

----------------------------------------------------------------------------
\* The alert.  Each of the two awaited device calls either settles ("ok"),
\* rejects ("failed") or, for the sound, is skipped when no sound is loaded
\* ("none": soundRef.current?.replayAsync()).  The awaits are taken to settle
\* within the step that makes the call.

\* the loaded Audio.Sound
Sound == 1

\* try { await ... } catch {}: whether the rejection leaves the try statement
Escapes_NoCatch(outcome) == outcome = "failed"
Escapes(outcome) == FALSE

HapticOutcomes == {"ok", "failed"}
SoundOutcomes == IF soundRef = Null THEN {"none"} ELSE {"ok", "failed"}

beepAndVibrate(h, s) ==
    LET threwAtHaptic == Escapes(h)
        threwAtSound == ~threwAtHaptic /\ Escapes(s)
        threw == threwAtHaptic \/ threwAtSound
    IN  [haptic |-> h,
         sound |-> IF threwAtHaptic THEN "none" ELSE s,
         vibrated |-> ~threw,
         threw |-> threw]

\* no call of beepAndVibrate in this step
Quiet == [haptic |-> "none", sound |-> "none", vibrated |-> FALSE, threw |-> FALSE]
NoAlert == beeps' = 0 /\ alert' = Quiet /\ UNCHANGED soundRef

\* beepAndVibrate(); the caller does not await it
Alert ==
    /\ beeps' = 1
    /\ \E h \in HapticOutcomes : \E s \in SoundOutcomes : alert' = beepAndVibrate(h, s)
    /\ UNCHANGED soundRef

\* A handler that returns before it touches anything.
Return == NoAlert /\ UNCHANGED <<session, refs, timers, now, snapshot>>

----------------------------------------------------------------------------
\* The conditions and expressions of the handlers.

\* if (phase !== "count") return;
TapAllowed_Always == TRUE
TapAllowed == rPhase = "count"

\* const next = Math.min(GOAL, c + 1)
TapNext_NoClamp(c) == c + 1
TapNext(c) == Min(GOAL, c + 1)

\* if (next === GOAL)
ReachedGoal_Above(next) == next > GOAL
ReachedGoal(next) == next = GOAL

\* if (phase !== "ready") return;
StartAllowed_Always == TRUE
StartAllowed == rPhase = "ready"

\* if (phase !== "timing") return;
StopAllowed == rPhase = "timing"

\* {phase === "done" && ( ... <Pressable onPress={nextRound}> ... )}
DonePanel == rPhase = "done"

\* if (round >= TOTAL_ROUNDS)
LastRound_Above(r) == r > TOTAL_ROUNDS
LastRound(r) == r >= TOTAL_ROUNDS

\* setRound((r) => Math.min(TOTAL_ROUNDS, r + 1))
RoundAfter_NoClamp(r) == r + 1
RoundAfter(r) == Min(TOTAL_ROUNDS, r + 1)

\* newArr[round - 1]: the 1-based position written for round r
RoundSlot_OffByOne(r) == r + 1
RoundSlot(r) == r

\* Math.max(0, (restEndRef.current ?? 0) - Date.now())
Remaining_NoClamp(end, t) == OrElse(end, 0) - t
Remaining(end, t) == Max(0, OrElse(end, 0) - t)

\* if (remaining <= 0)
RestOver_Below(remaining) == remaining < 0
RestOver(remaining) == remaining <= 0

\* restEndRef.current = Date.now() + REST_MS
RestDeadline_NoRest(t) == t
RestDeadline(t) == t + REST_MS

----------------------------------------------------------------------------
Init ==
    /\ phase = "count"
    /\ count = 0
    /\ elapsedMs = 0
    /\ restMs = REST_MS
    /\ round = 1
    /\ roundTimes = <<>>
    /\ startTimeRef = Null
    /\ restEndRef = Null
    /\ tickerRef = Null
    /\ timers = {}
    /\ now = 0
    /\ rPhase = "count"
    /\ rRound = 1
    /\ op = "init"
    /\ beeps = 0
    /\ soundRef = Null
    /\ alert = Quiet

handleTapToCount(flush) ==
    /\ op' = "tap"
    /\ IF ~TapAllowed THEN Return
       ELSE LET next == TapNext(count) IN
            /\ count' = next
            /\ IF ReachedGoal(next)
                  THEN Alert /\ phase' = "ready"
                  ELSE NoAlert /\ phase' = phase
            /\ UNCHANGED <<elapsedMs, restMs, round, roundTimes, refs, timers, now>>
            /\ Rerender(flush)

startMainTimer(flush) ==
    /\ op' = "start"
    /\ IF ~StartAllowed THEN Return
       ELSE LET cleared == ClearTicker(timers) IN
            /\ FreeIds(cleared) # {}
            /\ elapsedMs' = 0
            /\ startTimeRef' = now
            /\ phase' = "timing"
            /\ tickerRef' = NewId(cleared)
            /\ timers' = cleared \cup {[id |-> NewId(cleared), ms |-> MAIN_TICK_MS]}
            /\ NoAlert
            /\ UNCHANGED <<count, restMs, round, roundTimes, restEndRef, now>>
            /\ Rerender(flush)

\* Date.now() is read three times (lines 107, 113, 118): now, t2, t3.
stopMainStartRest(flush) ==
    /\ op' = "stop"
    /\ IF ~StopAllowed THEN Return
       ELSE LET cleared == ClearTicker(timers) IN
            \E t2 \in Later(now) : \E t3 \in Later(t2) :
            /\ FreeIds(cleared) # {}
            /\ elapsedMs' = IF startTimeRef # Null THEN now - startTimeRef ELSE elapsedMs
            /\ roundTimes' = SetAt(roundTimes, RoundSlot(rRound), t2 - OrElse(startTimeRef, 0))
            /\ restEndRef' = RestDeadline(t3)
            /\ restMs' = REST_MS
            /\ phase' = "rest"
            /\ tickerRef' = NewId(cleared)
            /\ timers' = cleared \cup {[id |-> NewId(cleared), ms |-> REST_TICK_MS]}
            /\ now' = t3
            /\ NoAlert
            /\ UNCHANGED <<count, round, startTimeRef>>
            /\ Rerender(flush)

\* The Next Round / See Summary button exists only in the done panel.
nextRound(flush) ==
    /\ op' = "advance"
    /\ IF ~DonePanel THEN Return
       ELSE IF LastRound(rRound)
       THEN /\ phase' = "summary"
            /\ NoAlert
            /\ UNCHANGED <<count, elapsedMs, restMs, round, roundTimes, refs, timers, now>>
            /\ Rerender(flush)
       ELSE /\ timers' = ClearTicker(timers)
            /\ tickerRef' = Null
            /\ startTimeRef' = Null
            /\ restEndRef' = Null
            /\ count' = 0
            /\ elapsedMs' = 0
            /\ restMs' = REST_MS
            /\ phase' = "count"
            /\ round' = RoundAfter(round)
            /\ NoAlert
            /\ UNCHANGED <<roundTimes, now>>
            /\ Rerender(flush)

\* resetAll without setRoundTimes([]).
resetAll_KeepTimes(flush) ==
    /\ op' = "reset"
    /\ timers' = ClearTicker(timers)
    /\ tickerRef' = Null
    /\ startTimeRef' = Null
    /\ restEndRef' = Null
    /\ count' = 0
    /\ elapsedMs' = 0
    /\ restMs' = REST_MS
    /\ phase' = "count"
    /\ round' = 1
    /\ NoAlert
    /\ UNCHANGED <<roundTimes, now>>
    /\ Rerender(flush)

resetAll(flush) ==
    /\ op' = "reset"
    /\ timers' = ClearTicker(timers)
    /\ tickerRef' = Null
    /\ startTimeRef' = Null
    /\ restEndRef' = Null
    /\ count' = 0
    /\ elapsedMs' = 0
    /\ restMs' = REST_MS
    /\ phase' = "count"
    /\ round' = 1
    /\ roundTimes' = <<>>
    /\ NoAlert
    /\ UNCHANGED now
    /\ Rerender(flush)

\* The callback of the interval startMainTimer installs.
mainTick ==
    /\ elapsedMs' = IF startTimeRef # Null THEN now - startTimeRef ELSE elapsedMs
    /\ NoAlert
    /\ UNCHANGED <<phase, count, restMs, round, roundTimes, refs, timers>>

\* The callback of the interval stopMainStartRest installs.
restTick ==
    LET remaining == Remaining(restEndRef, now) IN
    /\ restMs' = remaining
    /\ IF RestOver(remaining)
          THEN /\ timers' = ClearTicker(timers)
               /\ tickerRef' = Null
               /\ Alert
               /\ phase' = "done"
          ELSE /\ NoAlert
               /\ UNCHANGED <<timers, tickerRef, phase>>
    /\ UNCHANGED <<count, elapsedMs, round, roundTimes, startTimeRef, restEndRef>>

\* A live interval fires; its updates wait for a later render.
Tick ==
    \E t \in timers :
        /\ op' = "tick"
        /\ IF t.ms = MAIN_TICK_MS THEN mainTick ELSE restTick
        /\ UNCHANGED <<now, snapshot>>

\* The component function runs again: the handlers capture phase and round.
Render ==
    /\ <<rPhase, rRound>> # <<phase, round>>
    /\ rPhase' = phase
    /\ rRound' = round
    /\ op' = "render"
    /\ NoAlert
    /\ UNCHANGED <<session, refs, timers, now>>

\* The effect run at mount has created the sound (when createAsync fails,
\* soundRef stays null: this step is never taken).
loadSound ==
    /\ soundRef = Null
    /\ soundRef' = Sound
    /\ op' = "sound"
    /\ beeps' = 0
    /\ alert' = Quiet
    /\ UNCHANGED <<session, refs, timers, now, snapshot>>

\* Time passes: Date.now() is taken to be non-decreasing.
ClockAdvance ==
    /\ now + Quantum <= MaxQuanta * Quantum
    /\ now' = now + Quantum
    /\ op' = "clock"
    /\ NoAlert
    /\ UNCHANGED <<session, refs, timers, snapshot>>

Tap == handleTapToCount(TRUE)
Start == startMainTimer(TRUE)
Stop == stopMainStartRest(TRUE)
Advance == nextRound(TRUE)
Reset == resetAll(TRUE)

Next ==
    Tap \/ Start \/ Stop \/ Advance \/ Reset \/ Tick \/ Render \/ ClockAdvance
    \/ loadSound

Spec == Init /\ [][Next]_vars

StaleTap == handleTapToCount(FALSE)
StaleStart == startMainTimer(FALSE)
StaleStop == stopMainStartRest(FALSE)
StaleAdvance == nextRound(FALSE)
StaleReset == resetAll(FALSE)

NextStale ==
    StaleTap \/ StaleStart \/ StaleStop \/ StaleAdvance \/ StaleReset
    \/ Tick \/ Render \/ ClockAdvance \/ loadSound

SpecStale == Init /\ [][NextStale]_vars

\* setInterval keeps calling the callback of an installed interval, and time
\* keeps passing (up to the bound of the clock).
SpecLive == Init /\ [][Next]_vars /\ WF_vars(Tick) /\ WF_vars(ClockAdvance)

----------------------------------------------------------------------------
\* What stays the same in a step that is a no-op for the session.
SessionUnchanged ==
    UNCHANGED <<phase, round, count, elapsedMs, restMs, roundTimes,
                startTimeRef, restEndRef, tickerRef, timers>>

\* C1: from phase count, a tap below GOAL - 1 adds one to count, stays in
\* count and emits no alert; the tap that makes count GOAL moves to ready and
\* emits the alert; phase count always has count < GOAL and phase ready has
\* count = GOAL, so it is the GOAL-th tap that reaches ready; a tap once
\* count is GOAL changes neither count nor phase and emits no alert.
C1_TapStep ==
    op' = "tap" =>
        /\ (phase = "count" /\ count + 1 < GOAL) =>
               (count' = count + 1 /\ phase' = "count" /\ beeps' = 0)
        /\ (phase = "count" /\ count + 1 = GOAL) =>
               (count' = GOAL /\ phase' = "ready" /\ beeps' = 1)
        /\ count = GOAL =>
               (count' = GOAL /\ phase' = phase /\ beeps' = 0)
C1_TapsToGoal ==
    /\ [](phase = "count" => count < GOAL)
    /\ [](phase = "ready" => count = GOAL)
    /\ [][C1_TapStep]_vars
\* a further tap was delivered after the goal was reached, and did nothing
C1_Witness == op = "tap" /\ count = GOAL /\ phase = "ready" /\ beeps = 0

\* C2: tap outside count, start outside ready, stop outside timing and
\* advance outside done leave phase, round, count, elapsedMs, restMs,
\* roundTimes, both timestamps and the installed timer as they were.
C2_OutOfPhase ==
    \/ op' = "tap" /\ phase # "count"
    \/ op' = "start" /\ phase # "ready"
    \/ op' = "stop" /\ phase # "timing"
    \/ op' = "advance" /\ phase # "done"
C3_ResetStep ==
    op' = "reset" =>
        /\ phase' = "count" /\ round' = 1 /\ count' = 0
        /\ elapsedMs' = 0 /\ restMs' = REST_MS /\ roundTimes' = <<>>
        /\ startTimeRef' = Null /\ restEndRef' = Null
        /\ tickerRef' = Null /\ timers' = {}
C3_ResetIsInit == [][C3_ResetStep]_vars
\* reset was pressed on the rest screen of a later round (the snapshot of that
\* screen is still the rendered one)
C3_Witness ==
    op = "reset" /\ rPhase = "rest" /\ rRound > 1 /\ round = 1 /\ timers = {}

\* C4: pressing the button of the done panel in round TOTAL_ROUNDS gives
\* summary; summary is left for count only by reset; and summary is only ever
\* held with round = TOTAL_ROUNDS.
C4_SummaryStep ==
    /\ (op' = "advance" /\ rPhase = "done" /\ phase = "done" /\ round = TOTAL_ROUNDS)
           => phase' = "summary"
    /\ (phase = "summary" /\ phase' # "summary")
           => (op' = "reset" /\ phase' = "count")
C4_SummaryAfterLastRound ==
    /\ [](phase = "summary" => round = TOTAL_ROUNDS)
    /\ [][C4_SummaryStep]_vars
C4_Witness == op = "advance" /\ phase = "summary" /\ Len(roundTimes) = TOTAL_ROUNDS

\* C5: the Next Round button of the done panel of round r < TOTAL_ROUNDS
\* leaves round = r + 1, count 0, elapsedMs 0, restMs REST_MS, phase count and
\* the round times as they were, also when the press is delivered again
\* before the next render; round changes by one at a time.
C5_AdvanceStep ==
    /\ (op' = "advance" /\ rPhase = "done" /\ rRound < TOTAL_ROUNDS) =>
           /\ round' = rRound + 1
           /\ count' = 0 /\ elapsedMs' = 0 /\ restMs' = REST_MS
           /\ phase' = "count"
           /\ roundTimes' = roundTimes
    /\ (round' # round /\ op' # "reset") => round' = round + 1
C5_AdvanceNeverSkips == [][C5_AdvanceStep]_vars

\* C6: a stop pressed in timing adds exactly one entry to roundTimes, at
\* position round, leaves the earlier entries alone, and the entry is the
\* time from the start press (kept in startTimeRef through timing) to a clock
\* reading taken during the stop, never negative; entries are added by stop
\* only, removed by reset only, and no position is left empty.
C6_StopStep ==
    /\ (op' = "stop" /\ phase = "timing") =>
           /\ Len(roundTimes) = round - 1
           /\ Len(roundTimes') = round
           /\ \A k \in 1..Len(roundTimes) : roundTimes'[k] = roundTimes[k]
           /\ startTimeRef # Null
           /\ roundTimes'[round] >= now - startTimeRef
           /\ roundTimes'[round] <= now' - startTimeRef
           /\ roundTimes'[round] >= 0
    /\ (op' = "start" /\ phase = "ready") => startTimeRef' = now
    /\ (phase = "timing" /\ phase' = "timing") => startTimeRef' = startTimeRef
    /\ Len(roundTimes') > Len(roundTimes) => op' = "stop"
    /\ roundTimes' # roundTimes => op' \in {"stop", "reset"}
C6_OneEntryPerRound ==
    /\ [](Len(roundTimes) <= round)
    /\ [](\A k \in 1..Len(roundTimes) : roundTimes[k] >= 0)
    /\ [][C6_StopStep]_vars
\* the second round was stopped after a measurable time
C6_Witness ==
    /\ op = "stop" /\ phase = "rest" /\ round = 2
    /\ Len(roundTimes) = 2 /\ roundTimes[2] > 0

\* C7: restMs is never negative, and the step that takes the phase from rest
\* to done leaves restMs = 0.
C7_RestToDone == (phase = "rest" /\ phase' = "done") => restMs' = 0
C7_RestReachesZero ==
    /\ [](restMs >= 0)
    /\ [][C7_RestToDone]_vars
\* the tick that ended the rest came after the deadline
C7_Witness ==
    /\ op = "tick" /\ phase = "done" /\ restMs = 0
    /\ restEndRef # Null /\ restEndRef < now

\* C8: at most one interval is installed, and it is the one tickerRef names:
\* an interval start or stop installed earlier has been cleared.
C8_OneTimer ==
    /\ Cardinality(timers) <= 1
    /\ \A t \in timers : t.id = tickerRef
\* stop has replaced the stopwatch interval by the countdown interval
C8_Witness ==
    /\ op = "stop"
    /\ timers = {[id |-> tickerRef, ms |-> REST_TICK_MS]}

\* C9: count is in 0..GOAL and round is in 1..TOTAL_ROUNDS.
C9_Ranges == count \in 0..GOAL /\ round \in 1..TOTAL_ROUNDS
\* the last tap of the last round
C9_Witness == op = "tap" /\ count = GOAL /\ round = TOTAL_ROUNDS

\* C10: the phase changes only along count -> ready (tap) -> timing (start)
\* -> rest (stop) -> done (countdown tick) -> count of the next round or
\* summary (button of the done panel), or to count by reset.
C10_PhaseStep ==
    phase' # phase =>
        \/ phase = "count" /\ phase' = "ready" /\ op' = "tap"
        \/ phase = "ready" /\ phase' = "timing" /\ op' = "start"
        \/ phase = "timing" /\ phase' = "rest" /\ op' = "stop"
        \/ phase = "rest" /\ phase' = "done" /\ op' = "tick"
        \/ phase = "done" /\ phase' = "summary" /\ op' = "advance"
        \/ phase = "done" /\ phase' = "count" /\ op' = "advance"
        \/ phase' = "count" /\ op' = "reset"
C10_PhaseCycle == [][C10_PhaseStep]_vars
\* a later round was entered from done
C10_Witness == op = "advance" /\ phase = "count" /\ round = 3

\* C11: a rest countdown whose deadline lies within the bound of the clock
\* ends: unless reset returns the session to count, the phase becomes done;
\* the step from rest to done leaves no interval installed and emits the alert.
C11_RestToDone ==
    (phase = "rest" /\ phase' = "done") =>
        (op' = "tick" /\ timers' = {} /\ tickerRef' = Null /\ beeps' = 1)
C11_RestEnds ==
    /\ (phase = "rest" /\ restEndRef # Null /\ restEndRef <= MaxQuanta * Quantum)
           ~> (phase = "done" \/ phase = "count")
    /\ [][C11_RestToDone]_vars
\* the countdown of the last round has ended
C11_Witness ==
    /\ op = "tick" /\ phase = "done" /\ beeps = 1 /\ timers = {}
    /\ round = TOTAL_ROUNDS

\* C12: whatever the haptic call (settles, rejects) and the sound call
\* (settles, rejects, skipped for want of a loaded sound) do, a call of
\* beepAndVibrate lets no error out and issues the vibration, and the step
\* that made the call completes its transition: count = GOAL and phase ready
\* for the tap, restMs = 0, phase done and no interval for the countdown tick.
C12_EmitStep ==
    /\ (beeps' = 1 /\ op' = "tap") => (phase' = "ready" /\ count' = GOAL)
    /\ (beeps' = 1 /\ op' = "tick") =>
           (phase' = "done" /\ restMs' = 0 /\ timers' = {})
    /\ beeps' = 1 => op' \in {"tap", "tick"}
C12_FailuresSwallowed ==
    /\ [](beeps = 1 => (alert.vibrated /\ ~alert.threw))
    /\ [](beeps = 1 =>
            (alert.haptic \in {"ok", "failed"} /\ alert.sound \in {"ok", "failed", "none"}))
    /\ [][C12_EmitStep]_vars
\* the alert of the end of a rest, with both device calls rejecting
C12_Witness ==
    /\ beeps = 1 /\ phase = "done"
    /\ alert.haptic = "failed" /\ alert.sound = "failed" /\ alert.vibrated

\* C13, as stated: one interval is installed in every reachable state.
C13_ExactlyOneTimer == Cardinality(timers) = 1
\* C13, amended: never more than one interval is installed; exactly one is
\* while the phase is timing or rest, and none at launch.
C13_OneTimerWhileTicking ==
    /\ Cardinality(timers) <= 1
    /\ phase \in {"timing", "rest"} => Cardinality(timers) = 1
    /\ op = "init" => timers = {}
\* the stopwatch is running, then nothing is once the goal of the next round
\* is being counted
C13_Witness == phase = "count" /\ round = 2 /\ count > 0 /\ timers = {}

\* C14: stop sets the deadline to its (last) clock reading + REST_MS and restMs
\* to REST_MS; the step from rest to done is a tick at or after the deadline;
\* in rest restMs is within 0..REST_MS and a tick never raises it.
C14_RestStep ==
    /\ (op' = "stop" /\ phase = "timing") =>
           (restEndRef' = now' + 15000 /\ restMs' = REST_MS)
    /\ (phase = "rest" /\ phase' = "done") =>
           (op' = "tick" /\ restEndRef # Null /\ now' >= restEndRef)
    /\ (phase = "rest" /\ op' = "tick") => restMs' <= restMs
    /\ (phase = "rest" /\ phase' = "rest") => restEndRef' = restEndRef
C14_RestLastsRestMs ==
    /\ [](phase = "rest" => restMs \in 0..REST_MS)
    /\ [][C14_RestStep]_vars
\* a tick in the middle of the countdown
C14_Witness == op = "tick" /\ phase = "rest" /\ restMs > 0 /\ restMs < REST_MS

\* C15: start sets elapsedMs to 0 and startTimeRef to the clock; a tick in
\* timing sets elapsedMs to the clock minus startTimeRef and never lowers it;
\* in rest and done elapsedMs is changed by the done-panel button and by reset
\* only.
C15_ElapsedStep ==
    /\ (op' = "start" /\ phase = "ready") =>
           (elapsedMs' = 0 /\ startTimeRef' = now /\ phase' = "timing")
    /\ (op' = "tick" /\ phase = "timing") =>
           (startTimeRef # Null /\ elapsedMs' = now - startTimeRef /\ elapsedMs' >= elapsedMs)
    /\ (op' = "stop" /\ phase = "timing") => elapsedMs' >= elapsedMs
    /\ (phase \in {"rest", "done"} /\ elapsedMs' # elapsedMs) =>
           op' \in {"advance", "reset"}
C15_ElapsedFrozen == [][C15_ElapsedStep]_vars
\* the countdown ticks while the measured time stays on display
C15_Witness == op = "tick" /\ phase = "rest" /\ elapsedMs > 0 /\ restMs < REST_MS

\* C16: a step emits the alert exactly when it takes the phase from count to
\* ready or from rest to done, and then once.
C16_AlertStep ==
    /\ beeps' \in {0, 1}
    /\ beeps' = 1 <=>
           \/ phase = "count" /\ phase' = "ready"
           \/ phase = "rest" /\ phase' = "done"
C16_AlertOncePerTransition == [][C16_AlertStep]_vars

\* C17: roundTimes has no empty position; it has round - 1 entries in count,
\* ready and timing, round entries in rest and done, and TOTAL_ROUNDS entries
\* in summary.
C17_RoundBookkeeping ==
    /\ \A k \in 1..Len(roundTimes) : roundTimes[k] # Undefined /\ roundTimes[k] >= 0
    /\ phase \in {"count", "ready", "timing"} => Len(roundTimes) = round - 1
    /\ phase \in {"rest", "done"} => Len(roundTimes) = round
    /\ phase = "summary" => Len(roundTimes) = TOTAL_ROUNDS
\* the third round has been stopped
C17_Witness == phase = "rest" /\ round = 3 /\ Len(roundTimes) = 3

\* C18: an interval is installed exactly in timing and rest: the 50 ms
\* stopwatch interval in timing, the 100 ms countdown interval in rest; in
\* count, ready, done and summary a tick step does not exist.
C18_TimerMatchesPhase ==
    /\ timers # {} <=> phase \in {"timing", "rest"}
    /\ phase = "timing" => timers = {[id |-> tickerRef, ms |-> 50]}
    /\ phase = "rest" => timers = {[id |-> tickerRef, ms |-> 100]}
    /\ op = "tick" => phase \in {"timing", "rest", "done"}
\* the stopwatch interval of a later round
C18_Witness ==
    /\ phase = "timing" /\ round = 2 /\ op = "tick"
    /\ timers = {[id |-> tickerRef, ms |-> MAIN_TICK_MS]}

\* C19: after stop, the time recorded for the round is the elapsed time on
\* display.
C19_RecordedIsDisplayed ==
    (phase \in {"rest", "done"} /\ Len(roundTimes) >= round)
        => roundTimes[round] = elapsedMs

\* C20: a start, stop or done-panel press delivered right after reset, on the
\* snapshot rendered before it, leaves phase count, round 1, no round times
\* and no interval.
C20_StaleStep ==
    (op = "reset" /\ op' \in {"start", "stop", "advance"}) =>
        (phase' = "count" /\ round' = 1 /\ roundTimes' = <<>> /\ timers' = {})
C20_StalePressAfterReset == [][C20_StaleStep]_vars

TypeOK ==
    /\ phase \in Phases
    /\ rPhase \in Phases
    /\ count \in Int
    /\ round \in Int
    /\ now \in 0..(MaxQuanta * Quantum)
====
